---- MODULE Spec2Model ----
(***************************************************************************)
(* Model of the camera of planetary-viewer (src/camera.py), driven through *)
(* its public operations update, move, zoom, toggle_mode, check_collision. *)
(*                                                                         *)
(* Number representation (the code uses IEEE doubles; the model uses fixed *)
(* point, rounding after every multiplication the way a float rounds):     *)
(*   lengths      hundredths of a world unit   (30.0  -> 3000)             *)
(*   angles       milliradians                 (0.1   -> 100)              *)
(*   sin/cos,                                                              *)
(*   unit vectors thousandths                  (1.0   -> 1000)             *)
(*   progress, t  thousandths                  (1.0   -> 1000)             *)
(*   dt           milliseconds                                             *)
(*   move amounts tenths                       (1.0   -> 10)               *)
(*   mouse deltas pixels, wheel amounts notches (whole numbers)            *)
(***************************************************************************)
EXTENDS Integers, Sequences, FiniteSets, TLC

(***************************************************************************)
(* Configuration (src/config.py defaults) and constants of camera.py.      *)
(***************************************************************************)
\* config.initial_distance = 30.0
InitialDistance == 3000
\* config.max_distance = 50.0
MaxDistance == 5000
\* config.planet_radius = 10.0
PlanetRadius == 1000
\* config.mouse_sensitivity = 0.005 rad per pixel
MouseSensitivity == 5
\* config.zoom_speed = 0.5, as a move amount (tenths)
ZoomSpeed == 5
\* config.camera_speed = 0.1 world units, in hundredths
CameraSpeed == 10
\* config.camera_boost_factor = 2.0
BoostFactor == 2
\* self.transition_duration = 1.0 seconds, in milliseconds
TransitionDuration == 1000
\* math.pi / 2, in milliradians
HalfPi == 1571
\* the 0.1 rad margin of the pitch clip
PitchMargin == 100
\* the 0.1 world-unit margin of zoom and check_collision
CollisionMargin == 10

(***************************************************************************)
(* Bounds of the model.                                                    *)
(***************************************************************************)
\* at most this many camera operations are called in a run
MaxCalls == 5
\* free-flight coordinates stay within this many world units of the origin
MaxCoord == 60

\* inputs of update: pointer deltas in pixels, elapsed time in milliseconds
\* <<dx, dy, dt>>: the frame tick update(0, 0, dt) of PlanetaryViewer.run, the
\* pointer-motion update(dx, dy, 0) of handle_events, and one call with all three
UpdateInputs == { <<0, 0, 500>>, <<314, 0, 0>>, <<-314, 0, 0>>,
                  <<0, 600, 0>>, <<0, -600, 0>>, <<314, -600, 500>> }
\* inputs of move: <<forward, right, up, boost>>, amounts in tenths
MoveInputs == { <<-3000, 0, 0, FALSE>>, <<3000, 0, 0, FALSE>>,
                <<0, 1000, 0, TRUE>>, <<0, 0, -1000, FALSE>> }
\* inputs of zoom: wheel amounts
ZoomInputs == {-20, 1, 20}

(***************************************************************************)
(* Arithmetic helpers.                                                     *)
(***************************************************************************)
\* CHOOSE r \in { e(w) : w \in {x} } : TRUE below is e(x), with x evaluated
\* once however often e uses it
Abs(a) == IF a < 0 THEN -a ELSE a
Min(a, b) == IF a < b THEN a ELSE b
Max(a, b) == IF a > b THEN a ELSE b

\* a / b rounded to the nearest integer, halves away from zero (b > 0): the
\* rounding of one floating-point operation
RoundDiv(a, b) ==
    CHOOSE r \in { IF n >= 0 THEN (2 * n + b) \div (2 * b) ELSE -((b - 2 * n) \div (2 * b)) :
                   n \in {a} } : TRUE

\* a clip that forgets the lower bound
ClipWithoutFloor(x, lo, hi) == IF x < hi THEN x ELSE hi

\* np.clip(x, lo, hi)
Clip(x, lo, hi) == Max(lo, Min(x, hi))

RECURSIVE SqrtIter(_, _)
SqrtIter(n, g) ==
    CHOOSE r \in { IF h >= g THEN g ELSE SqrtIter(n, h) : h \in {(g + n \div g) \div 2} } : TRUE

\* floor of the square root
ISqrt(n) == IF n = 0 THEN 0 ELSE SqrtIter(n, n)

\* sin on [0, pi/2] (milliradians -> thousandths): the Taylor polynomial of
\* degree 7, never above 1
SinQ(x) ==
    LET x2 == RoundDiv(x * x, 1000)
        t3 == RoundDiv(x * x2, 1000)
        t5 == RoundDiv(t3 * x2, 1000)
        t7 == RoundDiv(t5 * x2, 1000)
    IN  Min(1000, x - RoundDiv(t3, 6) + RoundDiv(t5, 120) - RoundDiv(t7, 5040))

\* math.sin
Sin(a) ==
    LET r == a % (4 * HalfPi)
    IN  IF r <= HalfPi THEN SinQ(r)
        ELSE IF r <= 2 * HalfPi THEN SinQ(2 * HalfPi - r)
        ELSE IF r <= 3 * HalfPi THEN -SinQ(r - 2 * HalfPi)
        ELSE -SinQ(4 * HalfPi - r)

\* math.cos
Cos(a) == Sin(a + HalfPi)

(***************************************************************************)
(* Vectors (np.array of three floats).                                     *)
(***************************************************************************)
Zero3 == <<0, 0, 0>>
\* self.up = (0, 1, 0), a unit vector
Up == <<0, 1000, 0>>

VAdd(a, b) ==
    CHOOSE r \in { <<p[1][1] + p[2][1], p[1][2] + p[2][2], p[1][3] + p[2][3]>> : p \in {<<a, b>>} } : TRUE
\* v * n / d
VMulDiv(v, n, d) ==
    CHOOSE r \in { <<RoundDiv(w[1] * n, d), RoundDiv(w[2] * n, d), RoundDiv(w[3] * n, d)>> : w \in {v} } : TRUE
\* np.cross of two unit-scaled vectors
Cross(a, b) == << RoundDiv(a[2] * b[3] - a[3] * b[2], 1000),
                  RoundDiv(a[3] * b[1] - a[1] * b[3], 1000),
                  RoundDiv(a[1] * b[2] - a[2] * b[1], 1000) >>
SumSq(v) == v[1] * v[1] + v[2] * v[2] + v[3] * v[3]
\* np.linalg.norm, rounded down to the unit of v
Norm(v) == ISqrt(SumSq(v))
\* v / np.linalg.norm(v) for v # 0: a unit vector. A float keeps its relative
\* precision for a short vector; the norm is taken with k more digits the
\* shorter v is
Normalize(v) ==
    LET s == SumSq(v)
        k == IF s < 2000 THEN 1000 ELSE IF s < 200000 THEN 100
             ELSE IF s < 20000000 THEN 10 ELSE 1
    IN  VMulDiv(v, 1000 * k, ISqrt(k * k * s))

VARIABLES mode, distance, yaw, pitch, position, target,
          transition_progress, start_position, start_target,
          end_position, end_target,
          undefined, call, calls

vars == <<mode, distance, yaw, pitch, position, target,
          transition_progress, start_position, start_target,
          end_position, end_target, undefined, call, calls>>

(***************************************************************************)
(* Pure parts of the camera.                                               *)
(***************************************************************************)
\* Camera._get_forward_vector: a unit vector
ForwardVector(y, p) ==
    << RoundDiv(Cos(p) * Sin(y), 1000), Sin(p), RoundDiv(Cos(p) * Cos(y), 1000) >>

\* Camera._update_position: the orbit position for distance d, yaw y, pitch p
OrbitPosition(d, y, p) ==
    << RoundDiv(RoundDiv(d * Cos(p), 1000) * Sin(y), 1000),
       RoundDiv(d * Sin(p), 1000),
       RoundDiv(RoundDiv(d * Cos(p), 1000) * Cos(y), 1000) >>

\* a pitch clip without the 0.1 rad margin
ClipPitchWithoutMargin(p) == Clip(p, -HalfPi, HalfPi)

\* the pitch clip of _update_orbit and _update_free
ClipPitch(p) == Clip(p, -HalfPi + PitchMargin, HalfPi - PitchMargin)

\* Camera._ease_in_out_cubic
EaseInOutCubic(t) ==
    IF t < 500
    THEN RoundDiv(4 * t * t * t, 1000000)
    ELSE 1000 - RoundDiv((2000 - 2 * t) * (2000 - 2 * t) * (2000 - 2 * t), 2000000)

\* a transition tick that takes dt / duration as the progress instead of
\* adding it to the progress
AdvanceProgressWithoutAccumulating(p, dt) ==
    Min(1000, RoundDiv(dt * 1000, TransitionDuration))

\* Camera._update_transition: min(1.0, progress + dt / duration)
AdvanceProgress(p, dt) ==
    Min(1000, p + RoundDiv(dt * 1000, TransitionDuration))

\* an interpolation with the two weights swapped
LerpSwapped(s, e, t) ==
    << RoundDiv(s[1] * t + e[1] * (1000 - t), 1000),
       RoundDiv(s[2] * t + e[2] * (1000 - t), 1000),
       RoundDiv(s[3] * t + e[3] * (1000 - t), 1000) >>

\* start * (1 - t) + end * t
Lerp(s, e, t) ==
    << RoundDiv(s[1] * (1000 - t) + e[1] * t, 1000),
       RoundDiv(s[2] * (1000 - t) + e[2] * t, 1000),
       RoundDiv(s[3] * (1000 - t) + e[3] * t, 1000) >>

\* the right vector of move before normalisation
RightRaw(y, p) == Cross(ForwardVector(y, p), Up)

\* the displacement of move; needs Norm(RightRaw(y, p)) > 0
Displacement(y, p, f, r, u, boost) ==
    LET fwd   == ForwardVector(y, p)
        raw   == RightRaw(y, p)
        right == Normalize(raw)
        speed == CameraSpeed * (IF boost THEN BoostFactor ELSE 1)
        mv    == << fwd[1] * f + right[1] * r + Up[1] * u,
                    fwd[2] * f + right[2] * r + Up[2] * u,
                    fwd[3] * f + right[3] * r + Up[3] * u >>
    IN  VMulDiv(mv, speed, 10000)

InBox(v) == \A i \in 1..3 : Abs(v[i]) <= MaxCoord * 100

\* every operation: the camera holds no undefined value yet (the model stops
\* at the first nan), and the run has calls left
Called ==
    /\ ~undefined
    /\ calls < MaxCalls
    /\ calls' = calls + 1

(***************************************************************************)
(* Camera.__init__                                                         *)
(***************************************************************************)
Init ==
    /\ mode = "orbit"
    /\ distance = InitialDistance
    /\ yaw = 0
    /\ pitch = 0
    /\ position = <<0, 0, InitialDistance>>
    /\ target = Zero3
    /\ transition_progress = 1000
    /\ start_position = <<0, 0, InitialDistance>>
    /\ start_target = Zero3
    /\ end_position = <<0, 0, InitialDistance>>
    /\ end_target = Zero3
    /\ undefined = FALSE
    /\ call = [op |-> "init"]
    /\ calls = 0

(***************************************************************************)
(* Camera.update(dx, dy, dt): _update_orbit or _update_free, then          *)
(* _update_transition.                                                     *)
(***************************************************************************)
UpdateBody(dx, dy, dt) ==
    LET orbit == mode = "orbit"
        yaw1   == IF orbit THEN yaw + dx * MouseSensitivity
                           ELSE yaw - dx * MouseSensitivity
        pitch1 == ClipPitch(pitch - dy * MouseSensitivity)
        pos1   == IF orbit THEN OrbitPosition(distance, yaw1, pitch1) ELSE position
        tgt1   == IF orbit THEN target
                           ELSE VAdd(position, VMulDiv(ForwardVector(yaw1, pitch1), 1, 10))
        prog1  == AdvanceProgress(transition_progress, dt)
        t      == EaseInOutCubic(prog1)
    IN  /\ yaw' = yaw1
        /\ pitch' = pitch1
        /\ IF transition_progress < 1000
           THEN /\ transition_progress' = prog1
                /\ position' = Lerp(start_position, end_position, t)
                /\ target' = Lerp(start_target, end_target, t)
           ELSE /\ transition_progress' = transition_progress
                /\ position' = pos1
                /\ target' = tgt1
        /\ call' = [op |-> "update", dx |-> dx, dy |-> dy, dt |-> dt]
        /\ UNCHANGED <<mode, distance, start_position, start_target,
                       end_position, end_target, undefined>>

Update(dx, dy, dt) == Called /\ UpdateBody(dx, dy, dt)

(***************************************************************************)
(* Camera.move(forward, right, up, boost), as a change of position, target *)
(* and undefined; shared by Move and by Zoom in free mode.                 *)
(***************************************************************************)
MoveBody(f, r, u, boost) ==
    IF mode # "free"
    THEN UNCHANGED <<position, target, undefined>>
    ELSE IF Norm(RightRaw(yaw, pitch)) = 0
         THEN \* right_vec /= 0: every component becomes nan
              /\ undefined' = TRUE
              /\ UNCHANGED <<position, target>>
         ELSE LET d == Displacement(yaw, pitch, f, r, u, boost)
              IN  /\ InBox(VAdd(position, d))
                  /\ InBox(VAdd(target, d))
                  /\ position' = VAdd(position, d)
                  /\ target' = VAdd(target, d)
                  /\ UNCHANGED undefined

Move(f, r, u, boost) ==
    /\ Called
    /\ MoveBody(f, r, u, boost)
    /\ call' = [op |-> "move", forward |-> f, right |-> r, up |-> u, boost |-> boost]
    /\ UNCHANGED <<mode, distance, yaw, pitch, transition_progress,
                   start_position, start_target, end_position, end_target>>

(***************************************************************************)
(* Camera.zoom(amount)                                                     *)
(***************************************************************************)
Zoom(amount) ==
    /\ Called
    /\ IF mode = "orbit"
       THEN LET d1 == Clip(distance - amount * ZoomSpeed * 10,
                           PlanetRadius + CollisionMargin, MaxDistance)
            IN  /\ distance' = d1
                /\ position' = OrbitPosition(d1, yaw, pitch)
                /\ UNCHANGED <<target, undefined>>
       ELSE /\ MoveBody(amount * ZoomSpeed, 0, 0, FALSE)
            /\ UNCHANGED distance
    /\ call' = [op |-> "zoom", amount |-> amount]
    /\ UNCHANGED <<mode, yaw, pitch, transition_progress,
                   start_position, start_target, end_position, end_target>>

\* a toggle_mode that goes back to orbit without resetting yaw and pitch
ToggleModeKeepingOrientation ==
    /\ Called
    /\ IF mode = "orbit"
       THEN /\ mode' = "free"
            /\ end_position' = position
            /\ end_target' = target
            /\ position' = position
            /\ UNCHANGED <<distance, yaw, pitch>>
       ELSE /\ mode' = "orbit"
            /\ distance' = InitialDistance
            /\ position' = OrbitPosition(InitialDistance, yaw, pitch)
            /\ end_position' = position'
            /\ end_target' = Zero3
            /\ UNCHANGED <<yaw, pitch>>
    /\ start_position' = position'
    /\ start_target' = target
    /\ transition_progress' = 0
    /\ call' = [op |-> "toggle_mode"]
    /\ UNCHANGED <<target, undefined>>

(***************************************************************************)
(* Camera.toggle_mode()                                                    *)
(***************************************************************************)
ToggleMode ==
    /\ Called
    /\ IF mode = "orbit"
       THEN /\ mode' = "free"
            /\ end_position' = position
            /\ end_target' = target
            /\ position' = position
            /\ UNCHANGED <<distance, yaw, pitch>>
       ELSE /\ mode' = "orbit"
            /\ distance' = InitialDistance
            /\ yaw' = 0
            /\ pitch' = 0
            /\ position' = OrbitPosition(InitialDistance, 0, 0)
            /\ end_position' = position'
            /\ end_target' = Zero3
    /\ start_position' = position'
    /\ start_target' = target
    /\ transition_progress' = 0
    /\ call' = [op |-> "toggle_mode"]
    /\ UNCHANGED <<target, undefined>>

(***************************************************************************)
(* Camera.check_collision(planet_radius)                                   *)
(***************************************************************************)
CheckCollisionBody(planet_radius) ==
    LET distance_to_center == Norm(position)
        limit == planet_radius + CollisionMargin
    IN  /\ IF distance_to_center < limit
           THEN IF distance_to_center = 0
                THEN \* position / 0.0: every component becomes nan
                     /\ undefined' = TRUE
                     /\ UNCHANGED <<position, distance>>
                ELSE LET direction == Normalize(position)
                     IN  /\ position' = VMulDiv(direction, limit, 1000)
                         /\ distance' = IF mode = "orbit" THEN limit ELSE distance
                         /\ UNCHANGED undefined
           ELSE UNCHANGED <<position, distance, undefined>>
        /\ call' = [op |-> "check_collision"]
        /\ UNCHANGED <<mode, yaw, pitch, target, transition_progress,
                       start_position, start_target, end_position, end_target>>

CheckCollision(planet_radius) == Called /\ CheckCollisionBody(planet_radius)

DoUpdate == \E u \in UpdateInputs : Update(u[1], u[2], u[3])
DoMove == \E m \in MoveInputs : Move(m[1], m[2], m[3], m[4])
DoZoom == \E a \in ZoomInputs : Zoom(a)
DoToggle == ToggleMode
DoCheckCollision == CheckCollision(PlanetRadius)

Next == DoUpdate \/ DoMove \/ DoZoom \/ DoToggle \/ DoCheckCollision

Spec == Init /\ [][Next]_vars

(***************************************************************************)
(* The viewer loop, PlanetaryViewer.run: every frame runs handle_events    *)
(* (one camera call per queued event, then move for the keys held in free  *)
(* mode), then camera.update(0, 0, dt), then camera.check_collision.       *)
(* The position in the frame is read off the last call: the loop is in     *)
(* handle_events after check_collision and after every event call, at      *)
(* update after move, and at check_collision after update(0, 0, dt).       *)
(* The user's input (events and frames with a key held) is counted in      *)
(* calls, the frame's own update and check_collision are not. A frame      *)
(* without a key held calls move(0, 0, 0, False), which changes nothing,   *)
(* and is left out.                                                        *)
(***************************************************************************)
\* dt = clock.tick(fps) / 1000.0 of a frame, in milliseconds: always positive
FrameDts == {500}
\* event.rel of a MOUSEMOTION event, passed on as update(dx, dy, 0)
MotionInputs == { <<314, 0>>, <<0, -600>> }
\* event.y of a MOUSEWHEEL event, passed on as zoom(event.y)
WheelInputs == {-20, 1}
\* the keys held: <<forward, right, up, boost>>, each amount -1, 0 or 1 (tenths)
KeyInputs == { <<-10, 0, 0, TRUE>>, <<0, 10, -10, FALSE>> }

\* the loop is inside the event loop of handle_events
InHandleEvents ==
    \/ call.op \in {"init", "check_collision", "zoom", "toggle_mode"}
    \/ (call.op = "update" /\ call.dt = 0)

\* handle_events: one MOUSEMOTION, MOUSEWHEEL or K_SPACE event
ViewerEvent ==
    /\ InHandleEvents
    /\ \/ \E m \in MotionInputs : Update(m[1], m[2], 0)
       \/ \E a \in WheelInputs : Zoom(a)
       \/ ToggleMode

\* handle_events: the move call for the keys held, in free mode
ViewerKeys ==
    /\ InHandleEvents
    /\ mode = "free"
    /\ \E k \in KeyInputs : Move(k[1], k[2], k[3], k[4])

\* run: self.camera.update(0, 0, dt)
ViewerTick ==
    /\ InHandleEvents \/ call.op = "move"
    /\ ~undefined
    /\ \E dt \in FrameDts : UpdateBody(0, 0, dt)
    /\ UNCHANGED calls

\* run: self.camera.check_collision(self.config.planet_radius)
ViewerCollision ==
    /\ call.op = "update" /\ call.dt > 0
    /\ ~undefined
    /\ CheckCollisionBody(PlanetRadius)
    /\ UNCHANGED calls

ViewerNext == ViewerEvent \/ ViewerKeys \/ ViewerTick \/ ViewerCollision

\* handle_events works off a finite event list and returns, so the loop always
\* gets to its update and its check_collision call
ViewerSpec ==
    /\ Init
    /\ [][ViewerNext]_vars
    /\ WF_vars(ViewerTick)
    /\ WF_vars(ViewerCollision)

(***************************************************************************)
(* Helpers of the properties: equality within floating epsilon, which in   *)
(* this fixed-point model is two hundredths of a world unit per component. *)
(***************************************************************************)
Near(a, b) == \A i \in 1..3 : Abs(a[i] - b[i]) <= 2
VSub(a, b) == <<a[1] - b[1], a[2] - b[2], a[3] - b[3]>>
CollisionLimit == PlanetRadius + CollisionMargin

\* C1: in every reachable state in which mode is 'orbit', position equals
\* distance * (cos(pitch)sin(yaw), sin(pitch), cos(pitch)cos(yaw)) and target
\* equals the origin, also while a Free->Orbit transition is in flight.
C1_OrbitInvariant ==
    mode = "orbit" =>
        /\ Near(position, OrbitPosition(distance, yaw, pitch))
        /\ target = Zero3

\* C2: in every reachable state in which mode is 'free', target equals
\* position + forward, also right after toggle_mode and during the transition.
C2_FreeInvariant ==
    (mode = "free" /\ ~undefined) =>
        Near(target, VAdd(position, VMulDiv(ForwardVector(yaw, pitch), 1, 10)))

\* C3: in a state with transition_progress == 1, an update(0, 0, dt) call
\* leaves position and target unchanged.
C3_TransitionIdempotence ==
    [][ (transition_progress = 1000 /\ call'.op = "update"
            /\ call'.dx = 0 /\ call'.dy = 0)
        => (Near(position', position) /\ Near(target', target)) ]_vars

\* C4: toggle_mode, in both directions, arms a transition whose start pose is
\* the position and target the camera had immediately before the call, whose
\* end pose is the computed end pose, and whose progress is 0.
C4_ToggleArmsFromPreTogglePose ==
    [][ call'.op = "toggle_mode" =>
            /\ start_position' = position
            /\ start_target' = target
            /\ transition_progress' = 0
            /\ end_position' = (IF mode = "orbit" THEN position
                                ELSE OrbitPosition(InitialDistance, 0, 0))
            /\ end_target' = (IF mode = "orbit" THEN target ELSE Zero3) ]_vars

\* C5: in every reachable state target - position is non-zero and not
\* parallel to up = (0, 1, 0).
C5_PoseNeverDegenerate ==
    ~undefined =>
        LET d == VSub(target, position)
        IN  ~(d[1] = 0 /\ d[3] = 0)

\* C6: from every state with |position| < planetRadius + 0.1, check_collision
\* leaves |position| == planetRadius + 0.1 on the same ray from the origin,
\* and in orbit mode sets distance to planetRadius + 0.1.
C6_CollisionClamp ==
    [][ (call'.op = "check_collision" /\ Norm(position) < CollisionLimit) =>
            /\ ~undefined'
            /\ Abs(Norm(position') - CollisionLimit) <= 2
            /\ position # Zero3 /\ position' # Zero3
            /\ Near(Normalize(position'), Normalize(position))
            /\ (mode = "orbit" => distance' = CollisionLimit) ]_vars

\* C7: no camera operation ever produces an undefined result (no
\* normalisation of a zero-length vector in move or in check_collision).
C7_NeverUndefined == undefined = FALSE

\* C8: zoom(amount) in orbit mode sets distance to
\* clamp(distance - amount * zoomSpeed, planetRadius + 0.1, maxDistance), so
\* distance always stays in that interval; zoom never changes yaw, pitch or mode.
C8_ZoomClamp ==
    /\ [][ call'.op = "zoom" =>
            /\ yaw' = yaw /\ pitch' = pitch /\ mode' = mode
            /\ (mode = "orbit" =>
                  LET raw == distance - call'.amount * 50
                  IN  distance' = (IF raw < 1010 THEN 1010
                                   ELSE IF raw > 5000 THEN 5000 ELSE raw)) ]_vars
    /\ [](distance >= 1010 /\ distance <= 5000)

\* the spec's scenario: zoom(1.0) at distance 30 gives 29.5
C8_Witness ==
    /\ call.op = "zoom" /\ call.amount = 1
    /\ mode = "orbit" /\ distance = 2950

\* C9: in every reachable state -pi/2 < pitch < pi/2, strictly.
C9_PitchBound == -HalfPi < pitch /\ pitch < HalfPi

\* an update whose pitch change was cut back by the clip
C9_Witness ==
    /\ call.op = "update" /\ call.dy = -600
    /\ pitch = HalfPi - PitchMargin

\* C10: a toggle_mode that returns to orbit leaves distance, yaw and pitch at
\* their initialisation values and mode 'orbit', whatever was called before.
C10_ToggleRestores ==
    [][ (call'.op = "toggle_mode" /\ mode = "free") =>
            /\ mode' = "orbit"
            /\ distance' = InitialDistance
            /\ yaw' = 0
            /\ pitch' = 0 ]_vars

\* back in orbit after free flight that had changed yaw, pitch and the pose
C10_Witness ==
    /\ call.op = "toggle_mode" /\ mode = "orbit"
    /\ distance = InitialDistance /\ yaw = 0 /\ pitch = 0
    /\ start_target # Zero3

\* C11: transition_progress is always in [0, 1]; only toggle_mode sets it to
\* 0 and no other call lowers it; a pointer-motion update (dt = 0) does not
\* advance it; and in the viewer loop, unless toggle_mode is called again and
\* again, it eventually is 1 and stays 1.
C11_TransitionLifecycle ==
    /\ [](transition_progress >= 0 /\ transition_progress <= 1000)
    /\ [][ IF call'.op = "toggle_mode"
           THEN transition_progress' = 0
           ELSE /\ transition_progress' >= transition_progress
                /\ (transition_progress > 0 => transition_progress' > 0) ]_vars
    /\ [][ (call'.op = "update" /\ call'.dt = 0)
           => transition_progress' = transition_progress ]_vars
    /\ [][ (call'.op = "update" /\ call'.dt > 0 /\ transition_progress < 1000)
           => transition_progress' > transition_progress ]_vars
    /\ ([]<>(call.op = "toggle_mode") \/ <>[](transition_progress = 1000))

\* a frame update has just brought a transition armed by toggle_mode to its
\* end, after a frame that left it half way
C11_Witness ==
    /\ call.op = "update" /\ call.dt > 0
    /\ transition_progress = 1000
    /\ calls > 0
    /\ mode = "free"

\* C12: an update called with transition_progress < 1 leaves position and
\* target exactly at lerp(start, end, easeInOutCubic(new progress)) of the
\* poses captured by the last toggle_mode, whatever move, zoom, the pointer
\* or check_collision did to them since the previous update.
C12_InFlightUpdateOverwritesPose ==
    /\ [][ (call'.op = "update" /\ transition_progress < 1000) =>
            LET t == EaseInOutCubic(transition_progress')
            IN  \A i \in 1..3 :
                  /\ position'[i] = RoundDiv(start_position[i] * (1000 - t)
                                             + end_position[i] * t, 1000)
                  /\ target'[i] = RoundDiv(start_target[i] * (1000 - t)
                                           + end_target[i] * t, 1000) ]_vars
    /\ [][ call'.op # "toggle_mode" =>
            UNCHANGED <<start_position, start_target, end_position, end_target>> ]_vars

\* an update half way through a Free->Orbit transition whose target moves
C12_Witness ==
    /\ call.op = "update"
    /\ transition_progress > 0 /\ transition_progress < 1000
    /\ mode = "orbit"
    /\ start_target # end_target
    /\ target # start_target /\ target # end_target

====
